---- MODULE Spec2Model ----
(***************************************************************************)
(* Model of the AI article generator (src/app_ui.py): the prompt builder   *)
(* build_prompt, the streaming client generate_article and the "Generate   *)
(* Article" button handler of the Streamlit script.                        *)
(*                                                                         *)
(* Text is modelled as TLA+ strings, character by character (Len, \o and   *)
(* SubSeq).  The non-ASCII characters of the source's literals are written *)
(* in ASCII: the en dash as "-", the less-or-equal sign as "<=".           *)
(* Python's None / an unassigned local is the empty sequence <<>>, a       *)
(* present value v is <<v>>.  The temperature is counted in tenths.        *)
(***************************************************************************)
EXTENDS Integers, Sequences, FiniteSets, TLC

VARIABLES
    form,       \* the widgets' values read by the running script
    pc,         \* position of the script run / state of the generation call
    req,        \* ArticleRequest built by the handler (<<>> before)
    cfg,        \* GenConfig built by the handler (<<>> before)
    prompt,     \* <<build_prompt(req)>> once build_prompt was called
    request,    \* <<request>> once ollama.chat was called
    received,   \* the chunks the endpoint has delivered to this call so far
    chunks,     \* generate_article's local accumulator
    content,    \* <<text>> once generate_article has returned
    ui,         \* the elements the script has rendered, in order
    cpc,        \* concurrent calls: state of each call
    creceived,  \* concurrent calls: chunks delivered to each call
    cchunks,    \* concurrent calls: each call's accumulator
    cresult,    \* concurrent calls: <<text>> once the call has returned
    overlapped  \* concurrent calls: a call was started while another was streaming

vars == <<form, pc, req, cfg, prompt, request, received, chunks, content, ui,
          cpc, creceived, cchunks, cresult, overlapped>>

uiVars == <<form, pc, req, cfg, prompt, request, received, chunks, content, ui>>
concVars == <<cpc, creceived, cchunks, cresult, overlapped>>

(***************************************************************************)
(* Bounds of the model.                                                    *)
(***************************************************************************)
MaxKeywords == 2      \* longest keywords list of a directly built ArticleRequest
MaxChunks == 3        \* longest response stream of a handler run
MaxConcChunks == 2    \* longest response stream of a concurrent call

(***************************************************************************)
(* Python string and dict primitives.                                      *)
(***************************************************************************)
None == <<>>
Some(v) == <<v>>

CharAt(s, i) == SubSeq(s, i, i)

\* str.strip() with no argument removes leading and trailing whitespace.
IsSpace(ch) == ch \in {" ", "\t", "\n", "\r"}

RECURSIVE LStrip(_)
LStrip(s) ==
    IF s = "" THEN ""
    ELSE IF IsSpace(CharAt(s, 1)) THEN LStrip(SubSeq(s, 2, Len(s)))
    ELSE s

RECURSIVE RStrip(_)
RStrip(s) ==
    IF s = "" THEN ""
    ELSE IF IsSpace(CharAt(s, Len(s))) THEN RStrip(SubSeq(s, 1, Len(s) - 1))
    ELSE s

Strip(s) == RStrip(LStrip(s))

\* sep.join(parts)
RECURSIVE Join(_, _)
Join(sep, parts) ==
    IF parts = <<>> THEN ""
    ELSE IF Len(parts) = 1 THEN parts[1]
    ELSE parts[1] \o sep \o Join(sep, Tail(parts))

\* s.split(sep) for a one-character separator: "".split(",") is [""].
RECURSIVE SplitFrom(_, _, _)
SplitFrom(s, sep, cur) ==
    IF s = "" THEN <<cur>>
    ELSE IF CharAt(s, 1) = sep
         THEN <<cur>> \o SplitFrom(SubSeq(s, 2, Len(s)), sep, "")
         ELSE SplitFrom(SubSeq(s, 2, Len(s)), sep, cur \o CharAt(s, 1))

Split(s, sep) == SplitFrom(s, sep, "")

\* str(n) for an int
Digit(d) == CharAt("0123456789", d + 1)

RECURSIVE NatToStr(_)
NatToStr(n) == IF n < 10 THEN Digit(n) ELSE NatToStr(n \div 10) \o Digit(n % 10)

IntToStr(n) == IF n < 0 THEN "-" \o NatToStr(0 - n) ELSE NatToStr(n)

\* d.get(k, default)
Get(d, k, default) == IF k \in DOMAIN d THEN d[k] ELSE default

\* {**a, **b}
Merge(a, b) ==
    [k \in DOMAIN a \cup DOMAIN b |-> IF k \in DOMAIN b THEN b[k] ELSE a[k]]

EmptyDict == <<>>

(***************************************************************************)
(* Data models: the defaults of ArticleRequest and GenConfig.              *)
(***************************************************************************)
\* The fields not given here take the defaults of the class.
ArticleRequest(topic, keywords, include_outline, include_seo, include_references, extra_instructions) ==
    [topic |-> topic,
     keywords |-> keywords,
     audience |-> "General readers",
     tone |-> "Informative and engaging",
     language |-> "English",
     target_words |-> 1000,
     include_outline |-> include_outline,
     include_seo |-> include_seo,
     include_references |-> include_references,
     reading_level |-> "Easy to read (Grade 8-10)",
     extra_instructions |-> extra_instructions]

GenConfig(model, temperature, seed) ==
    [model |-> model, temperature |-> temperature, seed |-> seed]

(***************************************************************************)
(* Prompt Builder.                                                         *)
(***************************************************************************)
OutlineMarker == "Include a clear outline before the main content."
SkipSentence == "Skip the outline; start directly with the article."

\* Faulty variant of kw_str: the keywords joined by "," alone.
kw_str_comma(keywords) == IF keywords # <<>> THEN Join(",", keywords) ELSE "N/A"

kw_str(keywords) == IF keywords # <<>> THEN Join(", ", keywords) ELSE "N/A"

\* Faulty variant of outline_block: the two branches exchanged.
outline_block_swapped(include_outline) ==
    IF include_outline
    THEN SkipSentence \o "\n"
    ELSE OutlineMarker \o "\n"
         \o "- H1 title\n- 5-8 H2 sections with concise H3s where helpful\n"

outline_block(include_outline) ==
    IF include_outline
    THEN OutlineMarker \o "\n"
         \o "- H1 title\n- 5-8 H2 sections with concise H3s where helpful\n"
    ELSE SkipSentence \o "\n"

\* seo_block and refs_block are computed by build_prompt but are not
\* interpolated into the returned string.
seo_block(include_seo) ==
    IF include_seo
    THEN "After the article, output an SEO block with:\n"
         \o "- SEO Title (<= 60 chars)\n- Meta Description (<= 155 chars)\n"
         \o "- 8-12 SEO Keywords (comma-separated)\n"
    ELSE ""

refs_block(include_references) ==
    IF include_references
    THEN "Add a short 'References' section with 3-5 plausible sources (titles only, no links).\n"
    ELSE ""

\* Faulty variant of OutputOrderTail: the references entry renumbered to close the gap.
OutputOrderTail_renumbered(include_seo, include_references) ==
    (IF include_seo THEN "3) SEO Block\n" ELSE "")
    \o (IF include_references
        THEN (IF include_seo THEN "4) References\n" ELSE "3) References\n")
        ELSE "")

\* The two interpolations of the last line of the "Output Order" section
\* (their '\n' inside the f-string expression needs Python 3.12 or later).
OutputOrderTail(include_seo, include_references) ==
    (IF include_seo THEN "3) SEO Block\n" ELSE "")
    \o (IF include_references THEN "4) References\n" ELSE "")

build_prompt(r) ==
    Strip(
        "\n"
        \o "You are a senior content strategist and expert writer.\n"
        \o "\n"
        \o "Goal\n"
        \o "-----\n"
        \o "Write a comprehensive, well-structured article in " \o r.language
            \o " for the topic:\n"
        \o "\"" \o r.topic \o "\"\n"
        \o "\n"
        \o "Audience: " \o r.audience \o "\n"
        \o "Tone/Voice: " \o r.tone \o "\n"
        \o "Reading Level: " \o r.reading_level \o "\n"
        \o "Target Length: ~" \o IntToStr(r.target_words) \o " words\n"
        \o "Primary Keywords: " \o kw_str(r.keywords) \o "\n"
        \o "\n"
        \o "Structure & Style\n"
        \o "-----------------\n"
        \o outline_block(r.include_outline) \o "\n"
        \o "- Use Markdown formatting.\n"
        \o "- Use scannable headings, short paragraphs, and bullet lists where helpful.\n"
        \o "- Provide concrete examples and actionable tips.\n"
        \o "- Avoid fluff; keep it factual and clear.\n"
        \o "- Natural keyword usage; avoid keyword stuffing.\n"
        \o "\n"
        \o "Content Requirements\n"
        \o "--------------------\n"
        \o "- Strong hook and crisp thesis in intro.\n"
        \o "- Each H2 should fully cover one major point.\n"
        \o "- Add comparisons, pros/cons, pitfalls, or checklists where useful.\n"
        \o "- Conclude with practical summary or next steps.\n"
        \o "\n"
        \o "Output Order\n"
        \o "------------\n"
        \o "1) Outline (if requested)\n"
        \o "2) Full article in Markdown\n"
        \o OutputOrderTail(r.include_seo, r.include_references) \o "\n"
        \o "\n"
        \o "Extra Instructions\n"
        \o "------------------\n"
        \o r.extra_instructions \o "\n")

(***************************************************************************)
(* Generation Client: generate_article.                                    *)
(***************************************************************************)
SystemMessage == "Write clear, accurate, reader-friendly content. Prefer Markdown."

Messages(p) ==
    <<[role |-> "system", content |-> SystemMessage],
      [role |-> "user", content |-> p]>>

\* Faulty variant of Options: the seed is sent whenever it is truthy.
OptionsTruthySeed(c) ==
    Merge([temperature |-> c.temperature],
          IF c.seed # None /\ c.seed[1] # 0 THEN [seed |-> c.seed[1]] ELSE EmptyDict)

\* The options map: the temperature, and the seed unless it is None.
Options(c) ==
    Merge([temperature |-> c.temperature],
          IF c.seed # None THEN [seed |-> c.seed[1]] ELSE EmptyDict)

\* The arguments of ollama.chat.
ChatRequest(p, c) ==
    [model |-> c.model, messages |-> Messages(p), stream |-> TRUE,
     options |-> Options(c)]

\* The chunks of a response stream: a chunk with a text delta (possibly
\* empty), a chunk whose message has no content field, a chunk with no
\* message field.
Delta(text) == [message |-> [role |-> "assistant", content |-> text], done |-> FALSE]
MessageWithoutContent == [message |-> [role |-> "assistant"], done |-> FALSE]
WithoutMessage == [done |-> FALSE]

\* chunk.get("message", {}).get("content", "")
ExtractContent(chunk) == Get(Get(chunk, "message", EmptyDict), "content", "")

\* Faulty variant of LoopBody: a line break appended after every delta.
LoopBodyNewline(acc, chunk) ==
    LET delta == ExtractContent(chunk)
    IN  IF delta # "" THEN Append(acc, delta \o "\n") ELSE acc

\* The body of the loop over the stream: the accumulator after one chunk.
LoopBody(acc, chunk) ==
    LET delta == ExtractContent(chunk)
    IN  IF delta # "" THEN Append(acc, delta) ELSE acc

\* "".join(chunks)
ReturnValue(acc) == Join("", acc)

(***************************************************************************)
(* The "Generate Article" button handler.                                  *)
(***************************************************************************)
\* Faulty variant of TopicBlank: the topic compared without stripping it.
TopicEmpty(topic) == topic = ""

\* not topic.strip()
TopicBlank(topic) == Strip(topic) = ""

\* [k.strip() for k in keywords_raw.split(",") if k.strip()]
RECURSIVE StripNonBlank(_)
StripNonBlank(parts) ==
    IF parts = <<>> THEN <<>>
    ELSE (IF Strip(Head(parts)) # "" THEN <<Strip(Head(parts))>> ELSE <<>>)
         \o StripNonBlank(Tail(parts))

ParseKeywords(keywords_raw) == StripNonBlank(Split(keywords_raw, ","))

BuildRequest(f) ==
    [topic |-> Strip(f.topic),
     keywords |-> ParseKeywords(f.keywords_raw),
     audience |-> Strip(f.audience),
     tone |-> Strip(f.tone),
     language |-> Strip(f.language),
     target_words |-> f.target_words,
     include_outline |-> f.include_outline,
     include_seo |-> f.include_seo,
     include_references |-> f.include_refs,
     reading_level |-> f.reading_level,
     extra_instructions |-> Strip(f.extra)]

BuildConfig(f) ==
    GenConfig(Strip(f.model), f.temperature,
              IF f.use_seed THEN Some(f.seed) ELSE None)

\* What the handler renders once generate_article has returned.  The
\* download element records the text its bytes are encoded from; the file
\* name (a timestamp) is left out.
Rendered(text) ==
    <<[kind |-> "success", text |-> "Article generated!"],
      [kind |-> "markdown", text |-> "---"],
      [kind |-> "subheader", text |-> "Draft"],
      [kind |-> "markdown", text |-> text],
      [kind |-> "download", text |-> text]>>

(***************************************************************************)
(* Initial values shared by the specifications.                            *)
(***************************************************************************)
\* The widgets' default values (the placeholders are not values).
DefaultForm ==
    [model |-> "phi3:3.8b", temperature |-> 7, use_seed |-> FALSE, seed |-> 42,
     target_words |-> 1000, topic |-> "", keywords_raw |-> "",
     audience |-> "General readers", tone |-> "Informative and engaging",
     reading_level |-> "Easy to read (Grade 8-10)", language |-> "English",
     include_outline |-> TRUE, include_seo |-> TRUE, include_refs |-> FALSE,
     extra |-> ""]

Calls == {"first", "second"}

UiIdle ==
    /\ form = DefaultForm
    /\ pc = "idle"
    /\ req = None
    /\ cfg = None
    /\ prompt = None
    /\ request = None
    /\ received = <<>>
    /\ chunks = <<>>
    /\ content = None
    /\ ui = <<>>

ConcIdle ==
    /\ cpc = [c \in Calls |-> "idle"]
    /\ creceived = [c \in Calls |-> <<>>]
    /\ cchunks = [c \in Calls |-> <<>>]
    /\ cresult = [c \in Calls |-> None]
    /\ overlapped = FALSE

(***************************************************************************)
(* SpecPrompt: build_prompt applied to ArticleRequest values built         *)
(* directly (not only those the form can produce).                         *)
(***************************************************************************)
KeywordPool == {"ai", "seo", "N/A", ""}

RECURSIVE SeqsUpTo(_, _)
SeqsUpTo(S, n) ==
    IF n = 0 THEN {<<>>}
    ELSE LET shorter == SeqsUpTo(S, n - 1)
         IN  shorter \cup {Append(q, e) : q \in {p \in shorter : Len(p) = n - 1}, e \in S}

ExtraPool ==
    {"", "Add examples, include checklist", SkipSentence, OutlineMarker,
     "3) SEO Block", " keep it short \n"}

Requests ==
    {ArticleRequest(t, k, o, s, r, x) :
        t \in {"AI", "N/A"}, k \in SeqsUpTo(KeywordPool, MaxKeywords),
        o \in BOOLEAN, s \in BOOLEAN, r \in BOOLEAN, x \in ExtraPool}

InitPrompt ==
    /\ form = DefaultForm
    /\ pc = "idle"
    /\ req \in {Some(r) : r \in Requests}
    /\ cfg = None
    /\ prompt = None
    /\ request = None
    /\ received = <<>>
    /\ chunks = <<>>
    /\ content = None
    /\ ui = <<>>
    /\ ConcIdle

BuildPrompt ==
    /\ prompt = None
    /\ prompt' = Some(build_prompt(req[1]))
    /\ UNCHANGED <<form, pc, req, cfg, request, received, chunks, content, ui>>
    /\ UNCHANGED concVars

NextPrompt == BuildPrompt

SpecPrompt == InitPrompt /\ [][NextPrompt]_vars

(***************************************************************************)
(* Spec: one script run at a time.  The user clicks "Generate Article"     *)
(* with some widget values; the endpoint then delivers chunks one by one,  *)
(* and ends the stream or raises.                                          *)
(***************************************************************************)
TopicPool == {"", " \t ", "AI", " AI writing "}
KeywordsRawPool == {"", " ai ,, seo ,", "N/A"}
SeedPool == {0, 42}
TemperaturePool == {0, 7}
ChunkPool ==
    {Delta("Hel"), Delta("lo, "), Delta("world"), Delta(""),
     MessageWithoutContent, WithoutMessage}

Init == UiIdle /\ ConcIdle

\* Lines 137-164: the click, up to the first read of the response stream.
Generate ==
    /\ pc = "idle"
    /\ \E topic \in TopicPool, keywords_raw \in KeywordsRawPool,
          use_seed \in BOOLEAN, seed \in SeedPool, temperature \in TemperaturePool :
        LET f == [form EXCEPT !.topic = topic, !.keywords_raw = keywords_raw,
                              !.use_seed = use_seed, !.seed = seed,
                              !.temperature = temperature]
        IN  /\ form' = f
            /\ IF TopicBlank(f.topic)
               THEN /\ ui' = Append(ui, [kind |-> "error", text |-> "Please enter a topic."])
                    /\ pc' = "stopped"
                    /\ UNCHANGED <<req, cfg, prompt, request>>
               ELSE LET r == BuildRequest(f)
                        c == BuildConfig(f)
                        p == build_prompt(r)
                    IN  /\ req' = Some(r)
                        /\ cfg' = Some(c)
                        /\ ui' = Append(ui, [kind |-> "status", text |-> "Generating article..."])
                        /\ prompt' = Some(p)
                        /\ request' = Some(ChatRequest(p, c))
                        /\ pc' = "STREAMING"
    /\ UNCHANGED <<received, chunks, content>>
    /\ UNCHANGED concVars

\* Faulty variant of NextChunk: the text so far is rendered as each chunk arrives.
NextChunkRendering ==
    /\ pc = "STREAMING"
    /\ Len(received) < MaxChunks
    /\ \E chunk \in ChunkPool :
        /\ received' = Append(received, chunk)
        /\ chunks' = LoopBody(chunks, chunk)
        /\ ui' = Append(ui, [kind |-> "markdown", text |-> ReturnValue(LoopBody(chunks, chunk))])
    /\ UNCHANGED <<form, pc, req, cfg, prompt, request, content>>
    /\ UNCHANGED concVars

\* Faulty variant of NextChunk: a chunk without the expected fields raises (as
\* chunk["message"]["content"] would) and ends the call.
NextChunkStrict ==
    /\ pc = "STREAMING"
    /\ Len(received) < MaxChunks
    /\ \E chunk \in ChunkPool :
        /\ received' = Append(received, chunk)
        /\ IF "message" \in DOMAIN chunk /\ "content" \in DOMAIN chunk.message
           THEN chunks' = LoopBody(chunks, chunk) /\ pc' = pc
           ELSE chunks' = <<>> /\ pc' = "FAILED"
    /\ UNCHANGED <<form, req, cfg, prompt, request, content, ui>>
    /\ UNCHANGED concVars

\* Lines 105-108: one iteration of the loop over the stream.
NextChunk ==
    /\ pc = "STREAMING"
    /\ Len(received) < MaxChunks
    /\ \E chunk \in ChunkPool :
        /\ received' = Append(received, chunk)
        /\ chunks' = LoopBody(chunks, chunk)
    /\ UNCHANGED <<form, pc, req, cfg, prompt, request, content, ui>>
    /\ UNCHANGED concVars

\* Faulty variant of StreamRaise: the failure is swallowed and the text so far returned.
StreamRaiseReturnsPartial ==
    /\ pc = "STREAMING"
    /\ content' = Some(ReturnValue(chunks))
    /\ ui' = ui \o Rendered(ReturnValue(chunks))
    /\ pc' = "FAILED"
    /\ UNCHANGED <<form, req, cfg, prompt, request, received, chunks>>
    /\ UNCHANGED concVars

\* Line 105: the stream raises; nothing catches it, so generate_article and
\* the script run end there and the accumulator is dropped with the frame.
StreamRaise ==
    /\ pc = "STREAMING"
    /\ pc' = "FAILED"
    /\ chunks' = <<>>
    /\ UNCHANGED <<form, req, cfg, prompt, request, received, content, ui>>
    /\ UNCHANGED concVars

\* Lines 105, 109 and 164-178: the stream is exhausted, generate_article
\* returns and the handler renders the result.
EndOfStream ==
    /\ pc = "STREAMING"
    /\ content' = Some(ReturnValue(chunks))
    /\ ui' = ui \o Rendered(ReturnValue(chunks))
    /\ pc' = "DONE"
    /\ UNCHANGED <<form, req, cfg, prompt, request, received, chunks>>
    /\ UNCHANGED concVars

\* The script is run again from the top for the next interaction: the
\* widgets keep their values, everything else starts afresh.
Rerun ==
    /\ pc \in {"stopped", "FAILED", "DONE"}
    /\ pc' = "idle"
    /\ req' = None
    /\ cfg' = None
    /\ prompt' = None
    /\ request' = None
    /\ received' = <<>>
    /\ chunks' = <<>>
    /\ content' = None
    /\ ui' = <<>>
    /\ UNCHANGED form
    /\ UNCHANGED concVars

Next == Generate \/ NextChunk \/ StreamRaise \/ EndOfStream \/ Rerun

Spec == Init /\ [][Next]_vars

(***************************************************************************)
(* SpecConc: two generate_article calls in flight at once (two script      *)
(* runs), their response streams interleaved chunk by chunk.  The two      *)
(* endpoints' streams carry different deltas.                              *)
(***************************************************************************)
ConcPool(c) ==
    IF c = "first"
    THEN {Delta("Hel"), Delta("lo"), WithoutMessage}
    ELSE {Delta("wor"), Delta("ld"), Delta("")}

InitConc == UiIdle /\ ConcIdle

\* Lines 89-104: the call is entered, the stream opened, chunks = [].
CStart(c) ==
    /\ cpc[c] = "idle"
    /\ cpc' = [cpc EXCEPT ![c] = "STREAMING"]
    /\ cchunks' = [cchunks EXCEPT ![c] = <<>>]
    /\ overlapped' = (overlapped \/ \E d \in Calls \ {c} : cpc[d] = "STREAMING")
    /\ UNCHANGED <<creceived, cresult>>
    /\ UNCHANGED uiVars

\* Faulty variant of CNextChunk: one accumulator shared by the calls (a module-level
\* list instead of a local one).
CNextChunkShared(c) ==
    /\ cpc[c] = "STREAMING"
    /\ Len(creceived[c]) < MaxConcChunks
    /\ \E chunk \in ConcPool(c) :
        /\ creceived' = [creceived EXCEPT ![c] = Append(@, chunk)]
        /\ cchunks' = [d \in Calls |-> LoopBody(cchunks[d], chunk)]
    /\ UNCHANGED <<cpc, cresult, overlapped>>
    /\ UNCHANGED uiVars

\* Lines 105-108: one iteration of call c's loop; chunks is c's own local.
CNextChunk(c) ==
    /\ cpc[c] = "STREAMING"
    /\ Len(creceived[c]) < MaxConcChunks
    /\ \E chunk \in ConcPool(c) :
        /\ creceived' = [creceived EXCEPT ![c] = Append(@, chunk)]
        /\ cchunks' = [cchunks EXCEPT ![c] = LoopBody(@, chunk)]
    /\ UNCHANGED <<cpc, cresult, overlapped>>
    /\ UNCHANGED uiVars

\* Lines 105 and 109: call c's stream is exhausted and c returns.
CEnd(c) ==
    /\ cpc[c] = "STREAMING"
    /\ cresult' = [cresult EXCEPT ![c] = Some(ReturnValue(cchunks[c]))]
    /\ cpc' = [cpc EXCEPT ![c] = "DONE"]
    /\ UNCHANGED <<creceived, cchunks, overlapped>>
    /\ UNCHANGED uiVars

\* Line 105: call c's stream raises.
CRaise(c) ==
    /\ cpc[c] = "STREAMING"
    /\ cpc' = [cpc EXCEPT ![c] = "FAILED"]
    /\ cchunks' = [cchunks EXCEPT ![c] = <<>>]
    /\ UNCHANGED <<creceived, cresult, overlapped>>
    /\ UNCHANGED uiVars

NextConc == \E c \in Calls : CStart(c) \/ CNextChunk(c) \/ CEnd(c) \/ CRaise(c)

SpecConc == InitConc /\ [][NextConc]_vars

(***************************************************************************)
(* Reading a built prompt back: operators used by the properties only.     *)
(***************************************************************************)
\* pat occurs in s
Contains(s, pat) ==
    \E i \in 1..(Len(s) - Len(pat) + 1) : SubSeq(s, i, i + Len(pat) - 1) = pat

StartsWith(s, pre) == Len(pre) <= Len(s) /\ SubSeq(s, 1, Len(pre)) = pre

MatchAt(s, pat, i) == SubSeq(s, i, i + Len(pat) - 1) = pat

\* Index of the first occurrence of pat in s (0 when there is none).
FirstIndex(s, pat) ==
    LET hits == {i \in 1..(Len(s) - Len(pat) + 1) : MatchAt(s, pat, i)}
    IN  IF hits = {} THEN 0 ELSE CHOOSE i \in hits : \A j \in hits : i <= j

\* The text after the first occurrence of pat ("" when there is none).
AfterFirst(s, pat) ==
    LET i == FirstIndex(s, pat)
    IN  IF i = 0 THEN "" ELSE SubSeq(s, i + Len(pat), Len(s))

\* The text before the first occurrence of pat (all of s when there is none).
BeforeFirst(s, pat) ==
    LET i == FirstIndex(s, pat)
    IN  IF i = 0 THEN s ELSE SubSeq(s, 1, i - 1)

\* The line of the prompt p that starts with "Primary Keywords: ".
KeywordsLine(p) ==
    "Primary Keywords: "
        \o BeforeFirst(AfterFirst(p, "\nPrimary Keywords: "), "\n")

\* The body of the "Output Order" section of the prompt p.
OutputOrderSection(p) ==
    BeforeFirst(AfterFirst(p, "\nOutput Order\n------------\n"),
                "\nExtra Instructions\n------------------")

\* The keywords separated by ", ", built from the left.
RECURSIVE CommaSeparated(_, _)
CommaSeparated(keywords, n) ==
    IF n = 0 THEN ""
    ELSE IF n = 1 THEN keywords[1]
    ELSE CommaSeparated(keywords, n - 1) \o ", " \o keywords[n]

\* Some user-supplied text field of the request r contains pat.
FieldContains(r, pat) ==
    \/ \E f \in {"topic", "audience", "tone", "language", "reading_level",
                  "extra_instructions"} : Contains(r[f], pat)
    \/ \E i \in 1..Len(r.keywords) : Contains(r.keywords[i], pat)

Built == prompt # None /\ req # None

(***************************************************************************)
(* C6 (as stated): the "Primary Keywords" line contains "N/A" if and only  *)
(* if the keywords list is empty, and for a non-empty list it is the       *)
(* keywords joined by ", " in their original order.                        *)
(***************************************************************************)
C6_NAIffEmpty ==
    Built =>
        LET line == KeywordsLine(prompt[1])
            kws == req[1].keywords
        IN  /\ Contains(line, "N/A") <=> (kws = <<>>)
            /\ kws # <<>> =>
                    line = "Primary Keywords: " \o CommaSeparated(kws, Len(kws))

(***************************************************************************)
(* C6 (amended): the "Primary Keywords" line is "Primary Keywords: N/A"    *)
(* when the keywords list is empty and otherwise "Primary Keywords: "      *)
(* followed by exactly the keywords joined by ", " in their original       *)
(* order; so the line contains "N/A" exactly when the list is empty or the *)
(* joined keywords themselves contain "N/A".                               *)
(***************************************************************************)
C6_KeywordsLine ==
    Built =>
        LET line == KeywordsLine(prompt[1])
            kws == req[1].keywords
            joined == CommaSeparated(kws, Len(kws))
        IN  /\ kws = <<>> => line = "Primary Keywords: N/A"
            /\ kws # <<>> => line = "Primary Keywords: " \o joined
            /\ Contains(line, "N/A") <=> (kws = <<>> \/ Contains(joined, "N/A"))

C6_Witness ==
    /\ Built
    /\ req[1].keywords = <<"seo", "ai">>
    /\ KeywordsLine(prompt[1]) = "Primary Keywords: seo, ai"

(***************************************************************************)
(* C7 (as stated): with include_outline the prompt contains the outline    *)
(* block text and nowhere the skip-outline sentence; without it the prompt *)
(* contains the skip-outline sentence and nowhere the outline block text.  *)
(***************************************************************************)
C7_OutlineXorSkip ==
    Built =>
        IF req[1].include_outline
        THEN Contains(prompt[1], OutlineMarker) /\ ~Contains(prompt[1], SkipSentence)
        ELSE Contains(prompt[1], SkipSentence) /\ ~Contains(prompt[1], OutlineMarker)

(***************************************************************************)
(* C7 (amended): with include_outline the "Structure & Style" section      *)
(* opens with the outline block, and the skip-outline sentence occurs in   *)
(* the prompt only if a user-supplied text field of the request contains   *)
(* it; without include_outline the section opens with the skip-outline     *)
(* sentence, and the outline block text occurs only if a user-supplied     *)
(* field contains it.                                                      *)
(***************************************************************************)
C7_OutlineBlockInStyleSection ==
    Built =>
        LET p == prompt[1]
            r == req[1]
            style == AfterFirst(p, "\nStructure & Style\n-----------------\n")
        IN  IF r.include_outline
            THEN /\ StartsWith(style, OutlineMarker \o "\n- H1 title\n")
                 /\ Contains(p, SkipSentence) => FieldContains(r, SkipSentence)
            ELSE /\ StartsWith(style, SkipSentence \o "\n")
                 /\ Contains(p, OutlineMarker) => FieldContains(r, OutlineMarker)

C7_Witness ==
    /\ Built
    /\ req[1].include_outline
    /\ req[1].extra_instructions = SkipSentence
    /\ Contains(prompt[1], OutlineMarker)
    /\ Contains(prompt[1], SkipSentence)

(***************************************************************************)
(* C8: in the "Output Order" section "3) SEO Block" is present iff         *)
(* include_seo and "4) References" iff include_references; the numbers are *)
(* fixed, so without SEO and with references "4) References" follows       *)
(* item 2 directly and no item is numbered "3)".                           *)
(***************************************************************************)
C8_FixedNumbering ==
    Built =>
        LET sec == OutputOrderSection(prompt[1])
            r == req[1]
        IN  /\ StartsWith(sec, "1) Outline (if requested)\n2) Full article in Markdown\n")
            /\ Contains(sec, "\n3) SEO Block\n") <=> r.include_seo
            /\ Contains(sec, "\n4) References\n") <=> r.include_references
            /\ (~r.include_seo /\ r.include_references) =>
                    /\ Contains(sec, "\n2) Full article in Markdown\n4) References\n")
                    /\ ~Contains(sec, "3)")

C8_Witness ==
    /\ Built
    /\ ~req[1].include_seo
    /\ req[1].include_references
    /\ req[1].extra_instructions = "3) SEO Block"
    /\ Contains(prompt[1], "\n2) Full article in Markdown\n4) References\n")

(***************************************************************************)
(* Reading a stream back: operators used by the properties only.           *)
(***************************************************************************)
AllSpaces(s) == \A i \in 1..Len(s) : SubSeq(s, i, i) \in {" ", "\t", "\n", "\r"}

HasDelta(chunk) == "message" \in DOMAIN chunk /\ "content" \in DOMAIN chunk.message

TextOf(chunk) == IF HasDelta(chunk) THEN chunk.message.content ELSE ""

\* The deltas of the first n chunks of a stream, one after the other.
RECURSIVE Concatenation(_, _)
Concatenation(stream, n) ==
    IF n = 0 THEN "" ELSE Concatenation(stream, n - 1) \o TextOf(stream[n])

AllDeltas(stream) == Concatenation(stream, Len(stream))

Kinds == {ui[i].kind : i \in 1..Len(ui)}

\* No generated text has reached the caller or the page.
NothingSurfaced ==
    /\ content = None
    /\ Kinds \cap {"success", "subheader", "markdown", "download"} = {}

(***************************************************************************)
(* C1: a click with an empty or whitespace-only topic shows an error and   *)
(* stops the run: build_prompt is not called and no request is sent in     *)
(* that run; and a request is only ever sent for a topic that is not       *)
(* blank.                                                                  *)
(***************************************************************************)
C1_BlankTopicRefused ==
    /\ (pc # "idle" /\ AllSpaces(form.topic)) =>
            /\ pc = "stopped"
            /\ prompt = None
            /\ request = None
            /\ ui = <<[kind |-> "error", text |-> "Please enter a topic."]>>
    /\ (prompt # None \/ request # None) => ~AllSpaces(form.topic)

C1_Witness ==
    /\ pc = "stopped"
    /\ form.topic = " \t "
    /\ request = None
    /\ "error" \in Kinds

(***************************************************************************)
(* C2: when the stream raises, also after chunks were delivered, the call  *)
(* fails and returns no text: the deltas accumulated so far are not        *)
(* returned, rendered or offered for download.                             *)
(***************************************************************************)
C2_NoPartialTextOnFailure ==
    pc = "FAILED" =>
        /\ content = None
        /\ chunks = <<>>
        /\ \A i \in 1..Len(ui) : ui[i].kind = "status"

C2_Witness ==
    /\ pc = "FAILED"
    /\ received = <<Delta("Hel"), Delta("lo, ")>>
    /\ content = None

(***************************************************************************)
(* C3: when the stream ends without failure, generate_article returns      *)
(* exactly the deltas of the delivered chunks, concatenated in arrival     *)
(* order with nothing between them, a chunk without a delta counting as    *)
(* the empty string; "Hel", "lo, ", "world" give "Hello, world".           *)
(***************************************************************************)
C3_ReturnsConcatenation ==
    /\ pc = "DONE" => content = Some(AllDeltas(received))
    /\ (pc = "DONE" /\ received = <<Delta("Hel"), Delta("lo, "), Delta("world")>>)
            => content = Some("Hello, world")

C3_Witness ==
    /\ pc = "DONE"
    /\ received = <<Delta("Hel"), Delta("lo, "), Delta("world")>>
    /\ content = Some("Hello, world")

(***************************************************************************)
(* C4: the options sent to the endpoint always hold the configured         *)
(* temperature; they have no seed key when the seed is None and hold       *)
(* exactly the configured integer otherwise; from the form the seed is set *)
(* only when "Use fixed seed" is ticked, so with the toggle off no seed is *)
(* sent whatever the seed field holds.                                     *)
(***************************************************************************)
C4_SeedOnlyWhenSet ==
    request # None =>
        LET o == request[1].options
            c == cfg[1]
        IN  /\ "temperature" \in DOMAIN o
            /\ o.temperature = c.temperature
            /\ c.temperature = form.temperature
            /\ DOMAIN o \subseteq {"temperature", "seed"}
            /\ c.seed = None => "seed" \notin DOMAIN o
            /\ c.seed # None => "seed" \in DOMAIN o /\ o.seed = c.seed[1]
            /\ form.use_seed => c.seed = Some(form.seed)
            /\ ~form.use_seed => c.seed = None /\ "seed" \notin DOMAIN o

C4_Witness ==
    /\ request # None
    /\ form.use_seed
    /\ form.seed = 0
    /\ request[1].options = [temperature |-> 7, seed |-> 0]

(***************************************************************************)
(* C5 (as stated): a chunk without a message field, or whose message has   *)
(* no content field, makes generate_article fail: a call that was          *)
(* delivered such a chunk returns no text.                                 *)
(***************************************************************************)
C5_MalformedChunkFails ==
    (\E i \in 1..Len(received) : ~HasDelta(received[i])) =>
        pc # "DONE" /\ content = None

(***************************************************************************)
(* C5 (amended): a chunk without a message field, or whose message has no  *)
(* content field, does not make generate_article fail: it counts as an     *)
(* empty delta, the accumulated text stays as it was and the call goes on  *)
(* reading the stream.                                                     *)
(***************************************************************************)
C5_MalformedChunkSkipped ==
    [][(Len(received') = Len(received) + 1 /\ ~HasDelta(received'[Len(received')]))
            => (pc' = "STREAMING" /\ chunks' = chunks /\ content' = None)]_vars

C5_Witness ==
    /\ pc = "DONE"
    /\ received = <<Delta("Hel"), WithoutMessage, MessageWithoutContent>>
    /\ content = Some("Hel")

(***************************************************************************)
(* C9 (as stated): a generation call is in STREAMING and then in DONE and  *)
(* in no other state, leaving STREAMING only at the end of the stream; and *)
(* before DONE no generated text has been returned or rendered.            *)
(***************************************************************************)
C9_StreamingThenDone ==
    /\ request # None => pc \in {"STREAMING", "DONE"}
    /\ pc # "DONE" => NothingSurfaced

(***************************************************************************)
(* C9 (amended): a generation call is in STREAMING and then either in DONE *)
(* or, when the endpoint raises, failed; it leaves STREAMING for DONE only *)
(* when the endpoint signals the end of the stream, and a failed call      *)
(* never reaches DONE.  In every state other than DONE no generated text   *)
(* has been returned or rendered; the success message, the draft and the   *)
(* download appear with DONE.                                              *)
(***************************************************************************)
C9_StateInv ==
    /\ request # None => pc \in {"STREAMING", "DONE", "FAILED"}
    /\ pc # "DONE" => NothingSurfaced
    /\ pc = "DONE" =>
            /\ content # None
            /\ {"success", "markdown", "download"} \subseteq Kinds
            /\ ui[Len(ui)] = [kind |-> "download", text |-> content[1]]

C9_Step ==
    /\ (pc = "STREAMING" /\ pc' # "STREAMING") =>
            \/ pc' = "DONE" /\ received' = received /\ content' # None
            \/ pc' = "FAILED" /\ received' = received /\ content' = None
    /\ (pc # "DONE" /\ pc' = "DONE") => pc = "STREAMING"
    /\ pc = "FAILED" => pc' \in {"FAILED", "idle"}

C9_NothingBeforeDone == []C9_StateInv /\ [][C9_Step]_vars

C9_Witness ==
    /\ pc = "DONE"
    /\ received = <<Delta("Hel"), Delta("lo, ")>>
    /\ ui[Len(ui)] = [kind |-> "download", text |-> "Hello, "]

(***************************************************************************)
(* C10: with two calls in flight, under every interleaving of their        *)
(* streams each call accumulates and returns exactly the deltas of its own *)
(* stream, in order: no delta of the other call appears, none of its own   *)
(* is missing.                                                             *)
(***************************************************************************)
C10_CallsDoNotMix ==
    \A c \in Calls :
        /\ cpc[c] = "STREAMING" => Join("", cchunks[c]) = AllDeltas(creceived[c])
        /\ cpc[c] = "DONE" => cresult[c] = Some(AllDeltas(creceived[c]))
        /\ cpc[c] # "DONE" => cresult[c] = None

C10_Witness ==
    /\ overlapped
    /\ cpc = [c \in Calls |-> "DONE"]
    /\ cresult["first"] = Some("Hello")
    /\ cresult["second"] = Some("world")

====
